---- MODULE Spec2Model ----
(***************************************************************************)
(* Model of test-uv-python-upgrade.py: main() probes the external tool,    *)
(* then test_python_upgrade_respects_pin() drives pin / upgrade / runtime  *)
(* query in a temporary directory and inspects .python-version.            *)
(* The external tool is the environment: the exit status, the captured     *)
(* streams and what it leaves in .python-version are chosen freely.        *)
(* Text is a sequence of one-character strings.                            *)
(***************************************************************************)
EXTENDS Integers, Sequences, FiniteSets, TLC

VARIABLES pc, probe, workdir, existing, marker, inflight, calls, results,
          marker_after, pinned_version, upgraded_version, version_output,
          stdout_log, stderr_log, success, main_ret

vars == <<pc, probe, workdir, existing, marker, inflight, calls, results,
          marker_after, pinned_version, upgraded_version, version_output,
          stdout_log, stderr_log, success, main_ret>>

\* ------------------------------------------------------------------ bounds
MaxRc == 2
MaxDirs == 2

\* ------------------------------------------------------------ value spaces
NoDir == 0
Unbound == << >>
NoResult == [done |-> FALSE, rc |-> 0, stdout |-> << >>]
NotSeen == [kind |-> "unseen", content |-> << >>]
ReturnCodes == 0 .. MaxRc
Dirs == 1 .. MaxDirs
Whitespace == {" ", "\n", "\t"}

Expected == <<"3", ".", "1", "2">>

MarkerTexts ==
  { <<"3", ".", "1", "2", "\n">>,
    <<" ", "3", ".", "1", "2", ".", "7", "\n">>,
    <<"3", ".", "1", "1", "\n">>,
    <<"1", "3", ".", "1", "2">> }

Absent == [kind |-> "absent", content |-> << >>]
MarkerStates == {Absent} \cup {[kind |-> "text", content |-> t] : t \in MarkerTexts}

Stdouts ==
  { <<"P", "y", " ", "3", ".", "1", "2", ".", "7", "\n">>,
    <<"P", "y", " ", "3", ".", "1", "1", "\n">>,
    << >> }

ProbeStdouts == { <<"u", "v", " ", "0", ".", "9", "\n">>, << >> }

Stderrs == { << >>, <<"e", "r", "r">> }

Commands == {"pin", "upgrade", "query"}

\* --------------------------------------------------------- text operations
RECURSIVE LStrip(_)
LStrip(s) ==
  IF s = << >> THEN s
  ELSE IF Head(s) \in Whitespace THEN LStrip(Tail(s)) ELSE s

RECURSIVE RStrip(_)
RStrip(s) ==
  IF s = << >> THEN s
  ELSE IF s[Len(s)] \in Whitespace THEN RStrip(SubSeq(s, 1, Len(s) - 1)) ELSE s

Strip(s) == RStrip(LStrip(s))

StartsWith(s, p) == Len(s) >= Len(p) /\ SubSeq(s, 1, Len(p)) = p

Contains(s, p) ==
  \E i \in 1 .. (Len(s) - Len(p) + 1) : SubSeq(s, i, i + Len(p) - 1) = p

\* ------------------------------------------------------- the code's checks
ReturncodeFailsAlways(rc) == FALSE
ReturncodeFails(rc) == rc # 0

MarkerMissing(m) == m.kind = "absent"

ReadTextRaw(m) == m.content
ReadTextStripped(m) == Strip(m.content)

PrefixCheckLoose(v) == Contains(v, Expected)
PrefixCheckPasses(v) == StartsWith(v, Expected)

OutputCheckPasses(v) == Contains(v, Expected)

ExitCodeSwapped(ok) == IF ok = "True" THEN 1 ELSE 0
ExitCodeOf(ok) == IF ok = "True" THEN 0 ELSE 1

ExitContextLeakOnFault(dirs, d, how) == IF how = "fault" THEN dirs ELSE dirs \ {d}
ExitContext(dirs, d, how) == dirs \ {d}

CmdOfSwapped(step) ==
  CASE step = "step1" -> "upgrade"
    [] step = "step2" -> "pin"
    [] step = "step4" -> "query"
CmdOf(step) ==
  CASE step = "step1" -> "pin"
    [] step = "step2" -> "upgrade"
    [] step = "step4" -> "query"

Steps == {"step1", "step2", "step4"}

AfterPreflightIgnoreMissing(p) ==
  IF p.kind = "oserror" THEN "fault" ELSE "enter"
AfterPreflightNeedsZero(p) ==
  IF p.kind = "notfound" THEN "exited"
  ELSE IF p.kind = "launched" /\ p.rc = 0 THEN "enter"
  ELSE IF p.kind = "launched" THEN "exited"
  ELSE "fault"
AfterPreflight(p) ==
  IF p.kind = "notfound" THEN "exited"
  ELSE IF p.kind = "launched" THEN "enter"
  ELSE "fault"

\* ------------------------------------------------------- printed messages
Msg(k, t, a) == [kind |-> k, text |-> t, arg |-> a]

FailRcMsg(cmd, rc) ==
  CASE cmd = "pin"     -> Msg("FAIL", "uv python pin 3.12 failed with code", rc)
    [] cmd = "upgrade" -> Msg("FAIL", "uv python upgrade failed with code", rc)
    [] cmd = "query"   -> Msg("FAIL", "uv run python --version failed with code", rc)

MissingMsgSameAsPin == Msg("FAIL", "uv python pin 3.12 failed with code", 0)
MissingMsg == Msg("FAIL", ".python-version file was not created", 0)

PrefixMsg(v) == Msg("FAIL", "Expected Python 3.12.x but got", v)
OutputMsg(v) == Msg("FAIL", "Expected Python 3.12.x in output but got:", v)
PassMsg == Msg("PASS", "uv python upgrade correctly uses Python 3.12", 0)
ErrorMsg == Msg("ERROR", "uv is not installed or not in PATH", 0)

\* ------------------------------------------------------------------- Init
Init ==
  /\ pc = "main"
  /\ probe = [kind |-> "unprobed", rc |-> 0, stdout |-> << >>]
  /\ workdir = NoDir
  /\ existing = {}
  /\ marker = Absent
  /\ inflight = {}
  /\ calls = << >>
  /\ results = [c \in Commands |-> NoResult]
  /\ marker_after = [c \in Commands |-> NotSeen]
  /\ pinned_version = Unbound
  /\ upgraded_version = Unbound
  /\ version_output = Unbound
  /\ stdout_log = << >>
  /\ stderr_log = << >>
  /\ success = "None"
  /\ main_ret = << >>

locals == <<pinned_version, upgraded_version, version_output>>
toolvars == <<inflight, calls, results, marker_after, marker>>

\* ------------------------------------------------------------------ main
\* main(): banner, then the `uv --version` probe inside try/except.
Preflight ==
  /\ pc = "main"
  /\ \E p \in [kind : {"launched"}, rc : ReturnCodes, stdout : ProbeStdouts]
            \cup {[kind |-> "notfound", rc |-> 0, stdout |-> << >>],
                  [kind |-> "oserror", rc |-> 0, stdout |-> << >>]} :
       /\ probe' = p
       /\ pc' = AfterPreflight(p)
       /\ stdout_log' =
            stdout_log \o <<Msg("INFO", "Testing uv python upgrade behavior", 0)>>
              \o (IF p.kind = "launched"
                    THEN <<Msg("INFO", "uv version:", Strip(p.stdout))>>
                  ELSE IF p.kind = "notfound" THEN <<ErrorMsg>>
                  ELSE << >>)
       /\ main_ret' = IF AfterPreflight(p) = "exited" THEN <<1>> ELSE main_ret
  /\ UNCHANGED <<workdir, existing, toolvars, locals, stderr_log, success>>

\* with tempfile.TemporaryDirectory() as td: workdir = Path(td)
EnterTempDir ==
  /\ pc = "enter"
  /\ \E d \in Dirs :
       /\ workdir' = d
       /\ existing' = existing \cup {d}
  /\ marker' = Absent
  /\ pc' = "step1"
  /\ UNCHANGED <<probe, inflight, calls, results, marker_after, locals,
                 stdout_log, stderr_log, success, main_ret>>

\* Leaving the with block by `return value` after printing msgs.
ReturnWith(value, msgs) ==
  /\ success' = value
  /\ stdout_log' = stdout_log \o msgs
  /\ existing' = ExitContext(existing, workdir, "return")
  /\ pc' = "returned"

\* Leaving the with block by an exception nobody catches.
RaiseUnhandled ==
  /\ existing' = ExitContext(existing, workdir, "fault")
  /\ pc' = "fault"

StepBanner(step) ==
  CASE step = "step1" -> Msg("INFO", "=== Step 1: Pin to Python 3.12 ===", 0)
    [] step = "step2" -> Msg("INFO", "=== Step 2: Run uv python upgrade ===", 0)
    [] step = "step4" -> Msg("INFO", "=== Step 4: Verify with uv run python --version ===", 0)

\* run_command, up to the point where subprocess.run has spawned the child.
RunCommandStart ==
  /\ \E step \in Steps :
       /\ pc = step
       /\ stdout_log' = stdout_log \o <<StepBanner(step), Msg("CMD", CmdOf(step), 0)>>
       /\ calls' = Append(calls, [cmd |-> CmdOf(step), cwd |-> workdir])
       /\ inflight' = inflight \cup {CmdOf(step)}
       /\ pc' = step \o "_run"
  /\ UNCHANGED <<probe, workdir, existing, marker, results, marker_after,
                 locals, stderr_log, success, main_ret>>

\* run_command, from the child's exit to `return result`.
RunCommandFinish ==
  /\ \E step \in Steps :
       /\ pc = step \o "_run"
       /\ \E rc \in ReturnCodes, out \in Stdouts, err \in Stderrs, m \in MarkerStates :
            /\ results' = [results EXCEPT ![CmdOf(step)] = [done |-> TRUE, rc |-> rc, stdout |-> out]]
            /\ marker' = m
            /\ marker_after' = [marker_after EXCEPT ![CmdOf(step)] = m]
            /\ stdout_log' = IF out # << >>
                               THEN Append(stdout_log, Msg("OUT", "stdout", out))
                               ELSE stdout_log
            /\ stderr_log' = IF err # << >>
                               THEN Append(stderr_log, Msg("ERR", "stderr", err))
                               ELSE stderr_log
       /\ inflight' = inflight \ {CmdOf(step)}
       /\ pc' = step \o "_check"
  /\ UNCHANGED <<probe, workdir, existing, calls, locals, success, main_ret>>

AfterOk(step) ==
  CASE step = "step1" -> "exists_check"
    [] step = "step2" -> "read_upgraded"
    [] step = "step4" -> "output_check"

\* if result.returncode != 0: print FAIL; return False
CheckReturncode ==
  /\ \E step \in Steps :
       /\ pc = step \o "_check"
       /\ LET r == results[CmdOf(step)] IN
            IF ReturncodeFails(r.rc)
              THEN ReturnWith("False", <<FailRcMsg(CmdOf(step), r.rc)>>)
              ELSE /\ pc' = AfterOk(step)
                   /\ UNCHANGED <<existing, stdout_log, success>>
  /\ UNCHANGED <<probe, workdir, toolvars, locals, stderr_log, main_ret>>

\* if not python_version_file.exists(): print FAIL; return False
ExistsCheck ==
  /\ pc = "exists_check"
  /\ IF MarkerMissing(marker)
       THEN ReturnWith("False", <<MissingMsg>>)
       ELSE /\ pc' = "read_pinned"
            /\ UNCHANGED <<existing, stdout_log, success>>
  /\ UNCHANGED <<probe, workdir, toolvars, locals, stderr_log, main_ret>>

\* pinned_version = python_version_file.read_text().strip(); print it
ReadPinned ==
  /\ pc = "read_pinned"
  /\ IF marker.kind = "text"
       THEN /\ pinned_version' = ReadTextStripped(marker)
            /\ stdout_log' = Append(stdout_log,
                 Msg("INFO", "Pinned version in .python-version:", ReadTextStripped(marker)))
            /\ pc' = "step2"
            /\ UNCHANGED existing
       ELSE /\ RaiseUnhandled
            /\ UNCHANGED <<pinned_version, stdout_log>>
  /\ UNCHANGED <<probe, workdir, toolvars, upgraded_version, version_output,
                 stderr_log, success, main_ret>>

\* upgraded_version = python_version_file.read_text().strip(); print it
ReadUpgraded ==
  /\ pc = "read_upgraded"
  /\ IF marker.kind = "text"
       THEN /\ upgraded_version' = ReadTextStripped(marker)
            /\ stdout_log' = stdout_log \o
                 << Msg("INFO", "=== Step 3: Verify Python version ===", 0),
                    Msg("INFO", "Version after upgrade:", ReadTextStripped(marker)) >>
            /\ pc' = "prefix_check"
            /\ UNCHANGED existing
       ELSE /\ RaiseUnhandled
            /\ stdout_log' = Append(stdout_log,
                 Msg("INFO", "=== Step 3: Verify Python version ===", 0))
            /\ UNCHANGED upgraded_version
  /\ UNCHANGED <<probe, workdir, toolvars, pinned_version, version_output,
                 stderr_log, success, main_ret>>

\* if not upgraded_version.startswith("3.12"): print FAIL; return False
PrefixCheck ==
  /\ pc = "prefix_check"
  /\ IF PrefixCheckPasses(upgraded_version)
       THEN /\ pc' = "step4"
            /\ UNCHANGED <<existing, stdout_log, success>>
       ELSE ReturnWith("False", <<PrefixMsg(upgraded_version)>>)
  /\ UNCHANGED <<probe, workdir, toolvars, locals, stderr_log, main_ret>>

\* version_output = result.stdout.strip(); substring check; PASS
OutputCheck ==
  /\ pc = "output_check"
  /\ LET v == Strip(results["query"].stdout) IN
       /\ version_output' = v
       /\ IF OutputCheckPasses(v)
            THEN ReturnWith("True", <<Msg("INFO", "Python version output:", v), PassMsg>>)
            ELSE ReturnWith("False", <<Msg("INFO", "Python version output:", v), OutputMsg(v)>>)
  /\ UNCHANGED <<probe, workdir, toolvars, pinned_version, upgraded_version,
                 stderr_log, main_ret>>

\* return 0 if success else 1
MainReturn ==
  /\ pc = "returned"
  /\ main_ret' = <<ExitCodeOf(success)>>
  /\ pc' = "exited"
  /\ UNCHANGED <<probe, workdir, existing, toolvars, locals, stdout_log,
                 stderr_log, success>>

Next ==
  \/ Preflight
  \/ EnterTempDir
  \/ RunCommandStart
  \/ RunCommandFinish
  \/ CheckReturncode
  \/ ExistsCheck
  \/ ReadPinned
  \/ ReadUpgraded
  \/ PrefixCheck
  \/ OutputCheck
  \/ MainReturn

Spec == Init /\ [][Next]_vars

\* ============================================================ properties
Terminal == {"returned", "exited", "fault"}
Order == <<"pin", "upgrade", "query">>
Invoked(c) == \E i \in 1 .. Len(calls) : calls[i].cmd = c
Printed(k) == {i \in 1 .. Len(stdout_log) : stdout_log[i].kind = k}

\* The six checks, read off what the tool actually did.
AllSixChecks ==
  /\ results["pin"].done /\ results["pin"].rc = 0
  /\ marker_after["pin"].kind = "text"
  /\ results["upgrade"].done /\ results["upgrade"].rc = 0
  /\ marker_after["upgrade"].kind = "text"
  /\ StartsWith(Strip(marker_after["upgrade"].content), Expected)
  /\ results["query"].done /\ results["query"].rc = 0
  /\ Contains(Strip(results["query"].stdout), Expected)

\* C1: test_python_upgrade_respects_pin returns success if and only if the
\* pin exits 0, .python-version exists after the pin, the upgrade exits 0,
\* the trimmed marker re-read after the upgrade starts with "3.12", the
\* runtime query exits 0 and its trimmed stdout contains "3.12".
C1_SuccessIffAllSix ==
  /\ success = "True" => AllSixChecks
  /\ (pc \in Terminal /\ AllSixChecks) => success = "True"

C1_Witness ==
  /\ success = "True"
  /\ marker_after["upgrade"].content = <<" ", "3", ".", "1", "2", ".", "7", "\n">>
  /\ results["query"].stdout = <<"P", "y", " ", "3", ".", "1", "2", ".", "7", "\n">>

\* C2: main returns 0 exactly when the verifier reported pass and 1 in
\* every other case in which it returns, the preflight failure included;
\* it returns at most once and never any other code.
C2_ExitCode ==
  /\ Len(main_ret) <= 1
  /\ pc = "exited" <=> Len(main_ret) = 1
  /\ \A i \in 1 .. Len(main_ret) :
       /\ main_ret[i] \in {0, 1}
       /\ main_ret[i] = 0 <=> success = "True"
  /\ probe.kind = "notfound" => main_ret = <<1>>

C2_Witness == pc = "exited" /\ main_ret = <<0>> /\ success = "True"

\* C3: the verifier always ends by returning a reported outcome and never
\* ends in an unhandled fault, also when the marker file is gone at the
\* re-read after the upgrade step.
C3_VerifierNeverFaults == ~(pc = "fault" /\ workdir # NoDir)

\* C4: the temporary directory is gone in every final state: after a
\* return with pass, after every early return with failure and after an
\* unhandled fault.
C4_TempDirRemoved ==
  /\ pc \in Terminal => existing = {}
  /\ existing \subseteq {workdir}

C4_Witness == pc = "fault" /\ workdir \in Dirs /\ existing = {}

\* C5: when the preflight probe cannot find the tool, main prints the
\* tool-unavailable error and returns 1; no temporary directory is created
\* and no pin, upgrade or runtime-query command is invoked.
C5_ToolUnavailable ==
  probe.kind = "notfound" =>
    /\ pc = "exited"
    /\ main_ret = <<1>>
    /\ \E i \in Printed("ERROR") :
         stdout_log[i].text = "uv is not installed or not in PATH"
    /\ workdir = NoDir
    /\ existing = {}
    /\ calls = << >>
    /\ inflight = {}

C5_Witness == probe.kind = "notfound" /\ pc = "exited" /\ Len(stdout_log) = 2

\* An expectation of the scenario has been violated by what the tool did.
Violated ==
  \/ \E c \in Commands : results[c].done /\ results[c].rc # 0
  \/ results["pin"].done /\ marker_after["pin"].kind = "absent"
  \/ /\ results["upgrade"].done
     /\ marker_after["upgrade"].kind = "text"
     /\ ~StartsWith(Strip(marker_after["upgrade"].content), Expected)
  \/ /\ results["query"].done
     /\ ~Contains(Strip(results["query"].stdout), Expected)

C7_PinnedEqualsV ==
  pc = "step2" => (marker.kind = "text" /\ Strip(marker.content) = Expected)

\* C7 amended: whenever the verifier goes on from the pin step to the
\* upgrade step the pin command has exited 0, the marker file exists and
\* pinned_version holds its trimmed content; that content is not compared
\* with "3.12".
C7_PinnedCaptured ==
  pc = "step2" =>
    /\ results["pin"].done /\ results["pin"].rc = 0
    /\ marker.kind = "text"
    /\ pinned_version = Strip(marker.content)

C7_Witness ==
  /\ pc = "step2"
  /\ marker.content = <<"3", ".", "1", "1", "\n">>
  /\ pinned_version = <<"3", ".", "1", "1">>

\* C8: the commands are invoked in the order pin, upgrade, runtime query,
\* each at most once, all in the same temporary directory, and a command
\* starts only when every earlier one has completed, so that at most one
\* is in progress.
C8_SequentialOrder ==
  /\ Len(calls) <= Len(Order)
  /\ \A i \in 1 .. Len(calls) :
       /\ calls[i].cmd = Order[i]
       /\ calls[i].cwd = workdir
       /\ workdir \in Dirs
       /\ i < Len(calls) => (results[calls[i].cmd].done /\ calls[i].cmd \notin inflight)
  /\ Cardinality(inflight) <= 1
  /\ \A c \in inflight : Len(calls) > 0 /\ c = calls[Len(calls)].cmd /\ ~results[c].done

C8_Witness == Len(calls) = 3 /\ inflight = {"query"} /\ results["upgrade"].done

\* The message the first violated expectation calls for.
FirstViolationText ==
  IF results["pin"].rc # 0 THEN "uv python pin 3.12 failed with code"
  ELSE IF marker_after["pin"].kind = "absent" THEN ".python-version file was not created"
  ELSE IF results["upgrade"].rc # 0 THEN "uv python upgrade failed with code"
  ELSE IF ~StartsWith(Strip(marker_after["upgrade"].content), Expected)
    THEN "Expected Python 3.12.x but got"
  ELSE IF results["query"].rc # 0 THEN "uv run python --version failed with code"
  ELSE "Expected Python 3.12.x in output but got:"

\* C9: a run that returns failure has printed exactly one FAIL message and
\* it names the first violated expectation; the message for a missing
\* marker file differs from the one for a nonzero pin exit; PASS is printed
\* exactly when the verifier returns success and never along with a FAIL.
C9_Messages ==
  /\ success = "False" =>
       /\ Cardinality(Printed("FAIL")) = 1
       /\ \A i \in Printed("FAIL") : stdout_log[i].text = FirstViolationText
  /\ Printed("PASS") # {} <=> success = "True"
  /\ ~(Printed("PASS") # {} /\ Printed("FAIL") # {})
  /\ Cardinality(Printed("PASS")) <= 1
  /\ success = "None" => Printed("FAIL") = {}

C9_Witness ==
  /\ success = "False"
  /\ results["pin"].rc = 0
  /\ marker_after["pin"].kind = "absent"
  /\ Cardinality(Printed("FAIL")) = 1

\* C10: once the `uv --version` process was launched the scenario is
\* attempted whatever the probe's exit status and output, and the exit
\* code then follows the verifier's outcome alone.
C10_ProbeGatesOnLaunchOnly ==
  probe.kind = "launched" =>
    /\ pc # "enter" => workdir \in Dirs
    /\ pc = "exited" =>
         /\ Invoked("pin")
         /\ success \in {"True", "False"}
         /\ main_ret = <<IF success = "True" THEN 0 ELSE 1>>

C10_Witness ==
  /\ probe.kind = "launched"
  /\ probe.rc # 0
  /\ probe.stdout = << >>
  /\ pc = "exited"
  /\ main_ret = <<0>>

====
